---------------------------- MODULE Spec2Model ----------------------------
(***************************************************************************)
(* A model of PVGeo/readers/delimited.py: the DelimitedTextReader and the  *)
(* DelimitedPointsReaderBase.  The state is one reader object (its read    *)
(* parameters, its cached titles and frames, its need-to-read flag), the   *)
(* file system it reads, and what the last call did.  Text is modelled     *)
(* at the level of characters: a line is a sequence of one-character       *)
(* strings, a file a sequence of lines.                                    *)
(***************************************************************************)
EXTENDS Integers, Sequences, FiniteSets, TLC

(***************************************************************************)
(* Bounds of the model.                                                    *)
(***************************************************************************)
\* SetSkipRows is called with 0..MaxSkip
MaxSkip == 1
\* the process may hold at most MaxOpen file descriptors (open fails beyond)
MaxOpen == 3
\* RequestData is called with the indices -MaxIndex..MaxIndex
MaxIndex == 2

(***************************************************************************)
(* Python string primitives, on sequences of characters.                   *)
(***************************************************************************)
NL == "\n"

\* the characters str.strip() and str.split(None) treat as white space
Whitespace == {" ", "\t", NL}

\* position of the first occurrence of character c in s, 0 when absent
RECURSIVE FindFrom(_, _, _)
FindFrom(s, c, k) ==
    IF k > Len(s) THEN 0
    ELSE IF s[k] = c THEN k
    ELSE FindFrom(s, c, k + 1)

Find(s, c) == FindFrom(s, c, 1)

\* s[k:] of Python, k counted from 1
Tail_(s, k) == SubSeq(s, k, Len(s))

\* str.split(sep) for a one-character sep: every occurrence separates,
\* empty fields are kept, ''.split(sep) is ['']
RECURSIVE SplitOn(_, _)
SplitOn(s, sep) ==
    LET k == Find(s, sep)
    IN  IF k = 0 THEN << s >>
        ELSE << SubSeq(s, 1, k - 1) >> \o SplitOn(Tail_(s, k + 1), sep)

RECURSIVE LStrip(_)
LStrip(s) ==
    IF s # << >> /\ s[1] \in Whitespace THEN LStrip(Tail(s)) ELSE s

RECURSIVE RStrip(_)
RStrip(s) ==
    IF s # << >> /\ s[Len(s)] \in Whitespace
    THEN RStrip(SubSeq(s, 1, Len(s) - 1)) ELSE s

\* str.strip()
Strip(s) == RStrip(LStrip(s))

\* length of the leading run of non-white-space characters of s
RECURSIVE WordLen(_)
WordLen(s) ==
    IF s = << >> \/ s[1] \in Whitespace THEN 0 ELSE 1 + WordLen(Tail(s))

\* str.split(None): runs of white space separate, no empty fields
RECURSIVE SplitWhite(_)
SplitWhite(s) ==
    LET t == LStrip(s)
        n == WordLen(t)
    IN  IF t = << >> THEN << >>
        ELSE << SubSeq(t, 1, n) >> \o SplitWhite(Tail_(t, n + 1))

\* str.split(deli): deli = None splits on white space
Split(s, deli) ==
    IF deli = "None" THEN SplitWhite(s) ELSE SplitOn(s, deli)

\* '%d' % i for a natural number i
RECURSIVE Digits(_)
Digits(i) ==
    LET d == << "0", "1", "2", "3", "4", "5", "6", "7", "8", "9" >>
    IN  IF i < 10 THEN << d[i + 1] >>
        ELSE Digits(i \div 10) \o << d[(i % 10) + 1] >>

\* 'Field %d' % i
FieldTitle(i) == << "F", "i", "e", "l", "d", " " >> \o Digits(i)


(***************************************************************************)
(* The file system.  A file is a sequence of physical lines (each ends     *)
(* with a newline that readline returns with it); a name that is not in    *)
(* Existing cannot be opened.                                              *)
(***************************************************************************)
Lines(name) ==
    CASE name = "t0.txt"    -> << << "x", " ", "y" >>,
                                  << "1", " ", "2" >> >>
      [] name = "t1.txt"    -> << << "x", " ", "y" >>,
                                  << "3", " ", "4" >> >>
      [] name = "z.txt"     -> << << "x", " ", "z" >>,
                                  << "5", " ", "6" >> >>
      [] name = "w.txt"     -> << << "x", " ", "y", " ", "z" >>,
                                  << "1", " ", "2", " ", "3" >> >>
      [] name = "bad.txt"   -> << << "x", " ", "y" >>,
                                  << "1", " ", "2" >>,
                                  << "3", " ", "4", " ", "5" >> >>
      [] name = "c.txt"     -> << << "!", " ", "c" >>,
                                  << "x", " ", "y", " ", "!", " ", "n" >>,
                                  << "7", " ", "8" >> >>
      [] name = "csv.txt"   -> << << "x", ",", "y" >>,
                                  << "1", ",", "2" >> >>
      [] name = "short.txt" -> << << "x", " ", "y" >> >>
      [] name = "ic.txt"    -> << << " ", "!", " ", "c" >>,
                                  << "x", " ", "y" >>,
                                  << "1", " ", "2" >> >>
      [] name = "conly.txt" -> << << "!", " ", "c" >> >>
      [] name = "empty.txt" -> << >>
      [] OTHER              -> << >>

Existing ==
    { "t0.txt", "t1.txt", "z.txt", "w.txt", "bad.txt", "c.txt", "csv.txt",
      "short.txt", "ic.txt", "conly.txt", "empty.txt" }

\* the file name lists a reader is constructed with (one file per timestep)
FileSets ==
    { << "t0.txt" >>,
      << "c.txt" >>,
      << "short.txt" >>,
      << "ic.txt" >>,
      << "conly.txt" >>,
      << "empty.txt" >>,
      << "t0.txt", "t1.txt" >>,
      << "t0.txt", "z.txt" >>,
      << "t0.txt", "w.txt" >>,
      << "t0.txt", "bad.txt" >>,
      << "t0.txt", "gone.txt" >>,
      << "c.txt", "t0.txt" >>,
      << "csv.txt", "csv.txt" >>,
      << "t0.txt", "t1.txt", "c.txt" >> }

\* the file name lists a points reader is constructed with
PointsFileSets ==
    { << "t0.txt" >>,
      << "t0.txt", "bad.txt" >> }

\* the values the setters are called with
Delimiters == { " ", "," }
CommentChars == { "!", "#" }
SkipValues == 0 .. MaxSkip
Indices == (0 - MaxIndex) .. MaxIndex

\* the output of a call that served no frame; a served frame f is << f >>
NoFrame == << >>

VARIABLES
    kind,        \* the class of the reader object
    fileNames,   \* ReaderBase's file names, one per timestep
    delimiter,   \* self.__delimiter
    useTab,      \* self.__useTab
    skipRows,    \* self.__skipRows
    comments,    \* self.__comments
    hasTitles,   \* self.__hasTitles
    copy_z,      \* self.__copy_z (points reader)
    titles,      \* self._titles
    data,        \* self._data
    needToRead,  \* ReaderBase's need-to-read flag
    nOpen,       \* file descriptors the process holds open
    lastCall,    \* the last call made on the reader and its argument
    raised,      \* the exception the last call raised, "" when it returned
    output,      \* the frame the last call put in the output
    log          \* the file operations of the last call, in order

vars == << kind, fileNames, delimiter, useTab, skipRows, comments, hasTitles,
           copy_z, titles, data, needToRead, nOpen, lastCall, raised, output,
           log >>


(***************************************************************************)
(* Reading lines from a handle.  A handle is a record [file, pos]: pos is  *)
(* the number of physical lines already read from the file.                *)
(***************************************************************************)
\* handle.readline(): the next physical line with its newline, '' at the end
handle_readline(handle) ==
    LET lines == Lines(handle.file)
    IN  IF handle.pos < Len(lines)
        THEN [ln |-> lines[handle.pos + 1] \o << NL >>,
              handle |-> [handle EXCEPT !.pos = @ + 1]]
        ELSE [ln |-> << >>, handle |-> handle]

\* self._GetDeli(): None stands for splitting on white space
_GetDeli == IF useTab THEN "None" ELSE delimiter

\* _readline without the strip() of its last statement
RECURSIVE ReadlineLoop_NoStrip(_)
ReadlineLoop_NoStrip(r) ==
    IF r.ln = << >>
    THEN [raised |-> "IndexError", ln |-> << >>, handle |-> r.handle]
    ELSE IF r.ln[1] = comments
    THEN ReadlineLoop_NoStrip(handle_readline(r.handle))
    ELSE [raised |-> "",
          ln |-> SplitOn(r.ln, comments)[1],
          handle |-> r.handle]

\* _readline whose loop stops at the end of the file (while ln and
\* ln[0] == ...) and returns the empty line
RECURSIVE ReadlineLoop_EmptyAtEnd(_)
ReadlineLoop_EmptyAtEnd(r) ==
    IF r.ln = << >>
    THEN [raised |-> "", ln |-> << >>, handle |-> r.handle]
    ELSE IF r.ln[1] = comments
    THEN ReadlineLoop_EmptyAtEnd(handle_readline(r.handle))
    ELSE [raised |-> "",
          ln |-> Strip(SplitOn(r.ln, comments)[1]),
          handle |-> r.handle]

\* the loop and the last two lines of _readline, r being what
\* handle.readline() returned: ln[0] of an empty string raises IndexError
RECURSIVE ReadlineLoop(_)
ReadlineLoop(r) ==
    IF r.ln = << >>
    THEN [raised |-> "IndexError", ln |-> << >>, handle |-> r.handle]
    ELSE IF r.ln[1] = comments
    THEN ReadlineLoop(handle_readline(r.handle))
    ELSE [raised |-> "",
          ln |-> Strip(SplitOn(r.ln, comments)[1]),
          handle |-> r.handle]

\* self._readline(handle)
_readline(handle) == ReadlineLoop(handle_readline(handle))

\* _previewline without the seek back to the told position
previewline_NoSeek(handle) == _readline(handle)

\* self._previewline(handle): tell, _readline, seek back
_previewline(handle) ==
    [_readline(handle) EXCEPT !.handle = handle]

\* the skip loop of _GetFileHandles calling self._readline(handle), which
\* passes over comment lines without counting them
RECURSIVE SkipLines_ByReadline(_, _)
SkipLines_ByReadline(handle, n) ==
    IF n <= 0 THEN handle
    ELSE SkipLines_ByReadline(_readline(handle).handle, n - 1)

\* the skipRows calls of handle.readline() in _GetFileHandles
RECURSIVE SkipLines(_, _)
SkipLines(handle, n) ==
    IF n <= 0 THEN handle ELSE SkipLines(handle_readline(handle).handle, n - 1)

\* open(f, 'r') raises an OSError for a missing file and when the process
\* is out of descriptors; `held` is the number of descriptors held
CanOpen(f, held) == f \in Existing /\ held < MaxOpen

\* the loop of _GetFileHandles from the k-th file name on; `handles` are
\* the handles opened so far.  A failed open raises PVGeoError at once.
RECURSIVE OpenFrom(_, _)
OpenFrom(k, handles) ==
    IF k > Len(fileNames)
    THEN [raised |-> "", handles |-> handles]
    ELSE IF CanOpen(fileNames[k], nOpen + Len(handles))
    THEN OpenFrom(k + 1,
             Append(handles,
                    SkipLines([file |-> fileNames[k], pos |-> 0], skipRows)))
    ELSE [raised |-> "PVGeoError: IOError", handles |-> handles]

\* self._GetFileHandles()
_GetFileHandles == OpenFrom(1, << >>)

\* the titles _ExtractHeader makes of the line r that _readline returned
TitlesOfLine(r) ==
    [raised |-> r.raised,
     titles |-> IF r.raised = "" THEN Split(r.ln, _GetDeli) ELSE << >>,
     ln |-> r.ln,
     handle |-> r.handle]

\* _ExtractHeader numbering the made-up titles from 1
TitlesForLine_FromOne(r) ==
    [raised |-> r.raised,
     titles |-> IF r.raised = ""
                THEN [i \in 1 .. Len(Split(r.ln, _GetDeli)) |-> FieldTitle(i)]
                ELSE << >>,
     ln |-> r.ln,
     handle |-> r.handle]

\* the titles _ExtractHeader makes up for the line r that _previewline
\* returned
TitlesForLine(r) ==
    [raised |-> r.raised,
     titles |-> IF r.raised = ""
                THEN [i \in 1 .. Len(Split(r.ln, _GetDeli)) |->
                          FieldTitle(i - 1)]
                ELSE << >>,
     ln |-> r.ln,
     handle |-> r.handle]

\* self._ExtractHeader(handle)
_ExtractHeader(handle) ==
    IF hasTitles
    THEN TitlesOfLine(_readline(handle))
    ELSE TitlesForLine(_previewline(handle))

\* the loop of _ExtractHeaders from the i-th handle on: ts are the titles
\* extracted so far and lns the logical lines they were made of, handles
\* the handles as the extraction leaves them, r what _ExtractHeader
\* returned for the i-th handle
RECURSIVE HeadersFrom(_, _, _, _)
HeadersStep(i, handles, ts, lns, r) ==
    IF r.raised # ""
    THEN [raised |-> r.raised, ts |-> ts, lns |-> lns, handles |-> handles]
    ELSE HeadersFrom(i + 1, [handles EXCEPT ![i] = r.handle],
                     Append(ts, r.titles), Append(lns, r.ln))

HeadersFrom(i, handles, ts, lns) ==
    IF i > Len(handles)
    THEN [raised |-> "", ts |-> ts, lns |-> lns, handles |-> handles]
    ELSE HeadersStep(i, handles, ts, lns, _ExtractHeader(handles[i]))

\* np.unique(np.asarray(ts), axis=0): the distinct rows of ts.  Rows of
\* unequal lengths make no two-dimensional array and numpy raises
\* (ValueError, or TypeError for the object array of older versions).
Unique(ts) ==
    IF \E i, j \in 1 .. Len(ts) : Len(ts[i]) # Len(ts[j])
    THEN [raised |-> "numpy error", rows |-> { }]
    ELSE [raised |-> "", rows |-> { ts[i] : i \in 1 .. Len(ts) }]

\* lines 116-118 of _ExtractHeaders on u, the distinct title rows
CheckUnique(u) ==
    IF u.raised # "" THEN [raised |-> u.raised, titles |-> << >>]
    ELSE IF Cardinality(u.rows) > 1
    THEN [raised |-> "PVGeoError: titles varied", titles |-> << >>]
    ELSE IF u.rows = { }
    THEN [raised |-> "IndexError", titles |-> << >>]
    ELSE [raised |-> "", titles |-> CHOOSE t \in u.rows : TRUE]

\* the check of _ExtractHeaders on the titles of all files
ReconcileTitles(ts) == CheckUnique(Unique(ts))

\* what _ExtractHeaders returns or raises: h is what its loop did, r what
\* its check of the titles did
HeadersChecked(h, r) ==
    [raised |-> r.raised, titles |-> r.titles, handles |-> h.handles,
     ts |-> h.ts, lns |-> h.lns]

\* _ExtractHeaders after its loop, which did h
HeadersDone(h) ==
    IF h.raised # ""
    THEN [raised |-> h.raised, titles |-> << >>, handles |-> h.handles,
          ts |-> h.ts, lns |-> h.lns]
    ELSE HeadersChecked(h, ReconcileTitles(h.ts))

\* self._ExtractHeaders(handles); ts are the titles of the files, in order
_ExtractHeaders(handles) ==
    HeadersDone(HeadersFrom(1, handles, << >>, << >>))

(***************************************************************************)
(* pandas.read_table(handle, names=..., sep=... or delim_whitespace=True,  *)
(* comment=...), as far as the reader depends on it: the rest of the file  *)
(* is tokenized line by line, a line is cut at the comment character,      *)
(* lines left empty are skipped, a line with more fields than the first    *)
(* one is a tokenizing error, shorter lines are padded, and the columns    *)
(* of the frame are the names given.                                       *)
(***************************************************************************)
NaN == << "N", "a", "N" >>

\* the fields of one physical line, << >> for a line that is skipped
Fields(text, deli) ==
    IF deli = "None" THEN SplitWhite(text)
    ELSE IF text = << >> THEN << >>
    ELSE SplitOn(text, deli)

Tokenize(line, deli, comment) == Fields(SplitOn(line, comment)[1], deli)

\* the record of a line with the fields f, none for a skipped line
Record(f) == IF f = << >> THEN << >> ELSE << f >>

\* the tokenized lines of `lines` from line k on that are not skipped
RECURSIVE Records(_, _, _, _)
Records(lines, k, deli, comment) ==
    IF k > Len(lines) THEN << >>
    ELSE Record(Tokenize(lines[k], deli, comment))
         \o Records(lines, k + 1, deli, comment)

Pad(row, n) == [i \in 1 .. n |-> IF i <= Len(row) THEN row[i] ELSE NaN]

\* the frame of the tokenized lines recs
FrameOf(recs, names) ==
    IF \E k \in 1 .. Len(recs) : Len(recs[k]) > Len(recs[1])
    THEN [raised |-> "ParserError", df |-> << >>]
    ELSE [raised |-> "",
          df |-> << [columns |-> names,
                     rows |-> [k \in 1 .. Len(recs) |->
                                  Pad(recs[k], Len(recs[1]))]] >>]

read_table(handle, names, deli, comment) ==
    FrameOf(Records(Lines(handle.file), handle.pos + 1, deli, comment), names)

\* the loop of _FileContentsToDataFrame from the k-th handle on: `frames`
\* are the frames parsed so far, `events` the parses and closes done so
\* far, r is what read_table returned for the k-th handle.
\* names is what self.GetTitles() returns during the loop.
RECURSIVE ParseFrom(_, _, _, _, _)
ParseStep(k, handles, names, frames, events, r) ==
    IF r.raised # ""
    THEN [raised |-> r.raised, data |-> frames,
          events |-> Append(events, << "parse", k >>)]
    ELSE ParseFrom(k + 1, handles, names, frames \o r.df,
                   events \o << << "parse", k >>, << "close", k >> >>)

ParseFrom(k, handles, names, frames, events) ==
    IF k > Len(handles)
    THEN [raised |-> "", data |-> frames, events |-> events]
    ELSE ParseStep(k, handles, names, frames, events,
                   read_table(handles[k], names, _GetDeli, comments))

\* _FileContentsToDataFrame with the return inside the loop: only the first
\* handle is parsed and closed
FileContentsToDataFrame_ReturnInLoop(handles, names) ==
    ParseFrom(1, SubSeq(handles, 1, 1), names, << >>, << >>)

\* _FileContentsToDataFrame closing the handles in a loop of its own after
\* all files are parsed
FileContentsToDataFrame_CloseAtEnd(handles, names) ==
    LET d == ParseFrom(1, handles, names, << >>, << >>)
    IN  [d EXCEPT !.events =
             SelectSeq(@, LAMBDA e : e[1] = "parse")
             \o SelectSeq(@, LAMBDA e : e[1] = "close")]

\* self._FileContentsToDataFrame(handles), with self._titles = names
_FileContentsToDataFrame(handles, names) ==
    ParseFrom(1, handles, names, << >>, << >>)

\* the number of handles the events show closed
Closes(events) == Len(SelectSeq(events, LAMBDA e : e[1] = "close"))

\* a read that got to no header
NoHeaders == [ts |-> << >>, lns |-> << >>, handles |-> << >>]

\* the file operations of a read, in order: it opened `handles` (each open
\* event with the number of lines skipped), failed to open a further one
\* or not, extracted the titles t.ts from the logical lines t.lns (each
\* header event with the position of the handle before and after), and
\* did the parses and closes `events`
IOLog(handles, openFailed, t, events) ==
    [k \in 1 .. Len(handles) |-> << "open", k, handles[k].pos >>]
    \o (IF openFailed THEN << << "open failed", Len(handles) + 1 >> >>
        ELSE << >>)
    \o [k \in 1 .. Len(t.ts) |->
            << "header", k, t.ts[k], t.lns[k], handles[k].pos,
               t.handles[k].pos >>]
    \o events

\* _ReadUpFront with NeedToRead(flag=False) called before the parse instead
\* of after it
ReadUpFront_FlagBeforeParse(h, t, d) ==
    IF d.raised # ""
    THEN [raised |-> d.raised, titles |-> t.titles, data |-> data,
          needToRead |-> FALSE, open |-> Len(h.handles) - Closes(d.events),
          log |-> IOLog(h.handles, FALSE, t, d.events)]
    ELSE [raised |-> "", titles |-> t.titles, data |-> d.data,
          needToRead |-> FALSE, open |-> Len(h.handles) - Closes(d.events),
          log |-> IOLog(h.handles, FALSE, t, d.events)]

\* lines 145-147 of _ReadUpFront: d is what _FileContentsToDataFrame did
\* (raised, or returned the frames), self._titles is t.titles already
ReadUpFront_Store(h, t, d) ==
    IF d.raised # ""
    THEN [raised |-> d.raised, titles |-> t.titles, data |-> data,
          needToRead |-> needToRead,
          open |-> Len(h.handles) - Closes(d.events),
          log |-> IOLog(h.handles, FALSE, t, d.events)]
    ELSE [raised |-> "", titles |-> t.titles, data |-> d.data,
          needToRead |-> FALSE,
          open |-> Len(h.handles) - Closes(d.events),
          log |-> IOLog(h.handles, FALSE, t, d.events)]

\* lines 144-145 of _ReadUpFront: t is what _ExtractHeaders did
ReadUpFront_Parse(h, t) ==
    IF t.raised # ""
    THEN [raised |-> t.raised, titles |-> titles, data |-> data,
          needToRead |-> needToRead, open |-> Len(h.handles),
          log |-> IOLog(h.handles, FALSE, t, << >>)]
    ELSE ReadUpFront_Store(h, t,
             _FileContentsToDataFrame(t.handles, t.titles))

\* lines 143-144 of _ReadUpFront: h is what _GetFileHandles did
ReadUpFront_Headers(h) ==
    IF h.raised # ""
    THEN [raised |-> h.raised, titles |-> titles, data |-> data,
          needToRead |-> needToRead, open |-> Len(h.handles),
          log |-> IOLog(h.handles, TRUE, NoHeaders, << >>)]
    ELSE ReadUpFront_Parse(h, _ExtractHeaders(h.handles))

\* self._ReadUpFront(): what it leaves in the reader and what it raises;
\* `open` is the number of handles it leaves open
_ReadUpFront == ReadUpFront_Headers(_GetFileHandles)

\* a call that reads nothing
NoRead ==
    [raised |-> "", titles |-> titles, data |-> data,
     needToRead |-> needToRead, open |-> 0, log |-> << >>]

\* _GetRawData called without the index of the request: idx keeps its
\* default 0
GetRawData_DefaultIdx(d, idx) ==
    IF Len(d) > 0 THEN [raised |-> "", df |-> << d[1] >>]
    ELSE [raised |-> "IndexError", df |-> NoFrame]

\* self._GetRawData(idx) on the frames d: d[idx] of a Python list, a
\* negative idx counts from the end
_GetRawData(d, idx) ==
    IF 0 <= idx /\ idx < Len(d) THEN [raised |-> "", df |-> << d[idx + 1] >>]
    ELSE IF idx < 0 /\ 0 - idx <= Len(d)
    THEN [raised |-> "", df |-> << d[Len(d) + idx + 1] >>]
    ELSE [raised |-> "IndexError", df |-> NoFrame]


(***************************************************************************)
(* ReaderBase and the pipeline.                                            *)
(***************************************************************************)
\* self.Modified(): the read must be performed again
Modified == needToRead' = TRUE

\* what a call that returns leaves for its caller
Returns(op, arg) ==
    /\ lastCall' = [op |-> op, arg |-> arg]
    /\ raised' = ""
    /\ output' = NoFrame
    /\ log' = << >>

(***************************************************************************)
(* The reader after construction.                                          *)
(***************************************************************************)
Init ==
    /\ \/ kind = "DelimitedTextReader" /\ fileNames \in FileSets
       \/ kind = "DelimitedPointsReaderBase" /\ fileNames \in PointsFileSets
    /\ delimiter = " "
    /\ useTab = FALSE
    /\ skipRows = 0
    /\ comments = "!"
    /\ hasTitles = TRUE
    /\ copy_z = FALSE
    /\ titles = << >>
    /\ data = << >>
    /\ needToRead = TRUE
    /\ nOpen = 0
    /\ lastCall = [op |-> "__init__", arg |-> 0]
    /\ raised = ""
    /\ output = NoFrame
    /\ log = << >>

(***************************************************************************)
(* The setters.                                                            *)
(***************************************************************************)
\* SetDelimiter without the comparison with the current value
SetDelimiter_NoGuard(deli) ==
    /\ delimiter' = deli
    /\ Modified
    /\ Returns("SetDelimiter", deli)
    /\ UNCHANGED << kind, fileNames, useTab, skipRows, comments, hasTitles,
                    copy_z, titles, data, nOpen >>

SetDelimiter(deli) ==
    /\ IF deli # delimiter
       THEN delimiter' = deli /\ Modified
       ELSE UNCHANGED << delimiter, needToRead >>
    /\ Returns("SetDelimiter", deli)
    /\ UNCHANGED << kind, fileNames, useTab, skipRows, comments, hasTitles,
                    copy_z, titles, data, nOpen >>

SetSplitOnWhiteSpace(flag) ==
    /\ IF flag # useTab
       THEN useTab' = flag /\ Modified
       ELSE UNCHANGED << useTab, needToRead >>
    /\ Returns("SetSplitOnWhiteSpace", flag)
    /\ UNCHANGED << kind, fileNames, delimiter, skipRows, comments, hasTitles,
                    copy_z, titles, data, nOpen >>

\* SetSkipRows that stores the value and does not call Modified
SetSkipRows_NoModified(skip) ==
    /\ skipRows' = skip
    /\ UNCHANGED needToRead
    /\ Returns("SetSkipRows", skip)
    /\ UNCHANGED << kind, fileNames, delimiter, useTab, comments, hasTitles,
                    copy_z, titles, data, nOpen >>

SetSkipRows(skip) ==
    /\ IF skip # skipRows
       THEN skipRows' = skip /\ Modified
       ELSE UNCHANGED << skipRows, needToRead >>
    /\ Returns("SetSkipRows", skip)
    /\ UNCHANGED << kind, fileNames, delimiter, useTab, comments, hasTitles,
                    copy_z, titles, data, nOpen >>

SetComments(identifier) ==
    /\ IF identifier # comments
       THEN comments' = identifier /\ Modified
       ELSE UNCHANGED << comments, needToRead >>
    /\ Returns("SetComments", identifier)
    /\ UNCHANGED << kind, fileNames, delimiter, useTab, skipRows, hasTitles,
                    copy_z, titles, data, nOpen >>

\* SetHasTitles storing the value without calling Modified()
SetHasTitles_NoModified(flag) ==
    /\ hasTitles' = flag
    /\ UNCHANGED needToRead
    /\ Returns("SetHasTitles", flag)
    /\ UNCHANGED << kind, fileNames, delimiter, useTab, skipRows, comments,
                    copy_z, titles, data, nOpen >>

SetHasTitles(flag) ==
    /\ IF hasTitles # flag
       THEN hasTitles' = flag /\ Modified
       ELSE UNCHANGED << hasTitles, needToRead >>
    /\ Returns("SetHasTitles", flag)
    /\ UNCHANGED << kind, fileNames, delimiter, useTab, skipRows, comments,
                    copy_z, titles, data, nOpen >>

SetCopyZ(flag) ==
    /\ kind = "DelimitedPointsReaderBase"
    /\ IF copy_z # flag
       THEN copy_z' = flag /\ Modified
       ELSE UNCHANGED << copy_z, needToRead >>
    /\ Returns("SetCopyZ", flag)
    /\ UNCHANGED << kind, fileNames, delimiter, useTab, skipRows, comments,
                    hasTitles, titles, data, nOpen >>

(***************************************************************************)
(* The requests of the pipeline; i is the requested time index.            *)
(***************************************************************************)
\* RequestData that marks the cache dirty when the frame cannot be got
Deliver_InvalidateOnError(op, i, r, g) ==
    /\ titles' = r.titles
    /\ data' = r.data
    /\ needToRead' = IF g.raised # "" THEN TRUE ELSE r.needToRead
    /\ nOpen' = nOpen + r.open
    /\ log' = r.log
    /\ raised' = IF r.raised # "" THEN r.raised ELSE g.raised
    /\ output' = IF r.raised # "" THEN NoFrame ELSE g.df
    /\ lastCall' = [op |-> op, arg |-> i]
    /\ UNCHANGED << kind, fileNames, delimiter, useTab, skipRows,
                    comments, hasTitles, copy_z >>

\* lines 169-171 of RequestData: g is what _GetRawData did on the frames
\* the call holds after r, the read or no read
Deliver(op, i, r, g) ==
    /\ titles' = r.titles
    /\ data' = r.data
    /\ needToRead' = r.needToRead
    /\ nOpen' = nOpen + r.open
    /\ log' = r.log
    /\ raised' = IF r.raised # "" THEN r.raised ELSE g.raised
    /\ output' = IF r.raised # "" THEN NoFrame ELSE g.df
    /\ lastCall' = [op |-> op, arg |-> i]
    /\ UNCHANGED << kind, fileNames, delimiter, useTab, skipRows,
                    comments, hasTitles, copy_z >>

\* lines 167-170 of RequestData after r, the read or no read
AfterRead(op, i, r) == Deliver(op, i, r, _GetRawData(r.data, i))

\* RequestData that reads up front on every request
Request_AlwaysRead(op, i) == AfterRead(op, i, _ReadUpFront)

\* the body the two RequestData methods share: read if needed, then get
\* the frame of index i into the output
Request(op, i) ==
    AfterRead(op, i, IF needToRead THEN _ReadUpFront ELSE NoRead)

\* DelimitedTextReader.RequestData
RequestData(i) ==
    /\ kind = "DelimitedTextReader"
    /\ Request("RequestData", i)

\* DelimitedPointsReaderBase.RequestData
PointsRequestData(i) ==
    /\ kind = "DelimitedPointsReaderBase"
    /\ Request("RequestData", i)

Next ==
    \/ \E deli \in Delimiters : SetDelimiter(deli)
    \/ \E flag \in BOOLEAN : SetSplitOnWhiteSpace(flag)
    \/ \E skip \in SkipValues : SetSkipRows(skip)
    \/ \E identifier \in CommentChars : SetComments(identifier)
    \/ \E flag \in BOOLEAN : SetHasTitles(flag)
    \/ \E flag \in BOOLEAN : SetCopyZ(flag)
    \/ \E i \in Indices : RequestData(i)
    \/ \E i \in Indices : PointsRequestData(i)

Spec == Init /\ [][Next]_vars


(***************************************************************************)
(* What a log shows.                                                       *)
(***************************************************************************)
Events(l, name) == SelectSeq(l, LAMBDA e : e[1] = name)

OpenedBy(l) == Len(Events(l, "open"))
ClosedBy(l) == Len(Events(l, "close"))
ParsedBy(l) == Len(Events(l, "parse"))

\* the titles extracted from the files, in file order
HeadersOf(l) ==
    LET h == Events(l, "header") IN [k \in 1 .. Len(h) |-> h[k][3]]

\* the number of times the k-th file was opened
OpensOf(l, k) == Len(SelectSeq(l, LAMBDA e : e[1] = "open" /\ e[2] = k))

\* the read went through the whole file set: every file was opened, the
\* titles of all files were extracted and agree, every file was parsed
\* and closed
FullRead(l) ==
    LET n  == Len(fileNames)
        ts == HeadersOf(l)
    IN  /\ OpenedBy(l) = n
        /\ Len(ts) = n
        /\ \A i, j \in 1 .. n : ts[i] = ts[j]
        /\ ParsedBy(l) = n
        /\ ClosedBy(l) = n

SetterOps ==
    { "SetDelimiter", "SetSplitOnWhiteSpace", "SetSkipRows", "SetComments",
      "SetHasTitles", "SetCopyZ" }

\* the current value of the parameter the setter op sets
Current(op) ==
    CASE op = "SetDelimiter"         -> delimiter
      [] op = "SetSplitOnWhiteSpace" -> useTab
      [] op = "SetSkipRows"          -> skipRows
      [] op = "SetComments"          -> comments
      [] op = "SetHasTitles"         -> hasTitles
      [] op = "SetCopyZ"             -> copy_z

\* this step is a setter called with the value the parameter already has
SameValueCall ==
    lastCall'.op \in SetterOps /\ lastCall'.arg = Current(lastCall'.op)

\* this step is a setter called with another value than the current one
ChangedValueCall ==
    lastCall'.op \in SetterOps /\ lastCall'.arg # Current(lastCall'.op)

\* this step is a request that found the cache dirty / fresh
DirtyRequest == lastCall'.op = "RequestData" /\ needToRead
FreshRequest == lastCall'.op = "RequestData" /\ ~needToRead

(***************************************************************************)
(* The claims.                                                             *)
(***************************************************************************)

\* C1: when a request returns or raises on any exit path other than a
\* failed open (success, a parse failure, a header mismatch), every handle
\* its materialization opened has been closed.
C1_HandlesClosedOnEveryExit ==
    (lastCall.op = "RequestData" /\ raised # "PVGeoError: IOError")
        => ClosedBy(log) = OpenedBy(log)

\* C2: when the k-th file cannot be opened, the handles opened for the
\* files before it are closed before the failure reaches the caller.
C2_FailedOpenReleasesHandles ==
    (lastCall.op = "RequestData" /\ raised = "PVGeoError: IOError")
        => ClosedBy(log) = OpenedBy(log)

\* C3: a refresh attempt that does not go through the whole file set leaves
\* the cached titles and frames as they were, and titles or frames change
\* only in an attempt that goes through the whole file set.
C3_FailedRefreshKeepsCache ==
    [][ /\ (DirtyRequest /\ ~FullRead(log')) => UNCHANGED << titles, data >>
        /\ (titles' # titles \/ data' # data) => FullRead(log')
      ]_vars

\* C4: a refresh attempt that fails leaves the cache dirty and raises to
\* the caller; the cache turns fresh only in a request whose read went
\* through the whole file set.
C4_DirtyUntilWholeSetRead ==
    [][ /\ (DirtyRequest /\ ~FullRead(log'))
            => (needToRead' /\ raised' # "" /\ output' = NoFrame)
        /\ (needToRead /\ ~needToRead')
            => (lastCall'.op = "RequestData" /\ FullRead(log'))
      ]_vars

\* a request whose parse failed has returned and the cache is dirty
C4_Witness ==
    /\ lastCall.op = "RequestData"
    /\ raised = "ParserError"
    /\ ParsedBy(log) = 2
    /\ needToRead

\* C5: a setter called with the current value of its parameter changes
\* neither the need-to-read flag nor the parameters nor the cached titles
\* and frames.
C5_SameValueSetterNoEffect ==
    [][ SameValueCall
            => UNCHANGED << delimiter, useTab, skipRows, comments, hasTitles,
                            copy_z, titles, data, needToRead >>
      ]_vars

\* a setter has returned and the cache is fresh: it was called with the
\* current value while the cache was fresh
C5_Witness ==
    /\ lastCall.op = "SetDelimiter"
    /\ ~needToRead
    /\ Len(data) = Len(fileNames)

\* C6: a setter called with another value while the cache is fresh makes
\* it dirty and does no file operation and changes no cached value; no
\* setter does a file operation; the request that finds the cache dirty
\* does the read, and when it returns normally the read went through the
\* whole file set.
C6_LazyInvalidation ==
    [][ /\ (ChangedValueCall /\ ~needToRead)
            => (needToRead' /\ log' = << >>
                /\ UNCHANGED << titles, data, nOpen >>)
        /\ (lastCall'.op \in SetterOps) => (log' = << >> /\ nOpen' = nOpen)
        /\ DirtyRequest
            => (/\ log' # << >>
                /\ raised' = "" => (FullRead(log') /\ ~needToRead'))
      ]_vars

\* SetSkipRows has changed the value while frames of every file were
\* cached, and the cache is dirty
C6_Witness ==
    /\ lastCall.op = "SetSkipRows"
    /\ lastCall.arg = 1
    /\ needToRead
    /\ Len(data) = Len(fileNames)
    /\ log = << >>

\* C7: a request that finds the cache fresh does no file operation,
\* leaves the cache as it is and serves the cached frame of its index; a
\* request that finds it dirty runs the read, opening no file twice; a
\* same-value setter call on a fresh cache leaves it fresh and does no
\* file operation.
C7_FreshRequestNoIO ==
    [][ /\ FreshRequest
            => (/\ log' = << >>
                /\ UNCHANGED << titles, data, needToRead, nOpen >>
                /\ lastCall'.arg \in 0 .. (Len(data) - 1)
                    => (raised' = ""
                        /\ output' = << data[lastCall'.arg + 1] >>))
        /\ DirtyRequest
            => (/\ log' # << >>
                /\ OpenedBy(log') <= Len(fileNames)
                /\ \A k \in 1 .. Len(fileNames) : OpensOf(log', k) <= 1)
        /\ (SameValueCall /\ ~needToRead) => (~needToRead' /\ log' = << >>)
      ]_vars

\* a request has served a frame without any file operation
C7_Witness ==
    /\ lastCall.op = "RequestData"
    /\ log = << >>
    /\ output # NoFrame
    /\ raised = ""

\* C8: when the cache is not dirty there is one cached frame per file and
\* the column names of every cached frame are the cached titles.
C8_FreshCacheShape ==
    ~needToRead
        => (/\ Len(data) = Len(fileNames)
            /\ \A k \in 1 .. Len(data) : data[k].columns = titles)

\* the cache is fresh for a set of two files
C8_Witness ==
    /\ ~needToRead
    /\ Len(fileNames) = 2
    /\ Len(data) = 2
    /\ titles # << >>

\* C9: when the titles of all files were extracted, the reconciliation
\* yields the common title sequence unmodified if they are all the same,
\* and raises the titles-varied PVGeoError if two of them differ, in a
\* name or in the number of titles.
C9_Reconciliation ==
    LET ts == HeadersOf(log)
    IN  (lastCall.op = "RequestData" /\ Len(ts) = Len(fileNames))
            => IF \A i, j \in 1 .. Len(ts) : ts[i] = ts[j]
               THEN /\ raised \notin { "PVGeoError: titles varied",
                                       "numpy error" }
                    /\ titles = ts[1]
               ELSE raised = "PVGeoError: titles varied"

\* C10: a request for an index outside 0 .. Len(fileNames)-1 serves no
\* frame and raises; when the read it needed (if any) went well, what it
\* raises is the IndexError.
C10_OutOfRangeFails ==
    (/\ lastCall.op = "RequestData"
     /\ (lastCall.arg < 0 \/ lastCall.arg >= Len(fileNames)))
        => (/\ output = NoFrame
            /\ raised # ""
            /\ ~needToRead => raised = "IndexError")

\* this step is a request whose index names no file of the set and that
\* fails at the index: the read, if one was needed, went through the whole
\* file set
BadIndexFailure ==
    /\ lastCall'.op = "RequestData"
    /\ lastCall'.arg \notin 0 .. (Len(fileNames) - 1)
    /\ raised' = "IndexError"
    /\ (log' = << >> \/ FullRead(log'))

\* C11 as stated: a request that fails at a bad index leaves the
\* need-to-read flag, the cached titles and the cached frames as they
\* were, whether the cache was dirty or fresh.
C11_BadIndexKeepsCache ==
    [][ BadIndexFailure => UNCHANGED << needToRead, titles, data >> ]_vars

\* C11: a request that fails at a bad index leaves the need-to-read flag,
\* the cached titles and the cached frames as they were when it found the
\* cache fresh; when it found the cache dirty the read ran before the
\* index was used, and the cache is fresh with the titles and one frame
\* per file of that read.
C11_BadIndexKeepsFreshCache ==
    [][ BadIndexFailure
            => IF needToRead
               THEN /\ ~needToRead'
                    /\ titles' = HeadersOf(log')[1]
                    /\ Len(data') = Len(fileNames)
               ELSE UNCHANGED << needToRead, titles, data >>
      ]_vars

\* a request for an index past the last file has failed on a fresh cache
\* without any file operation
C11_Witness ==
    /\ lastCall.op = "RequestData"
    /\ lastCall.arg >= Len(fileNames)
    /\ raised = "IndexError"
    /\ log = << >>
    /\ ~needToRead
    /\ Len(data) = Len(fileNames)

\* what read_table makes of the file f alone under the current parameters
\* and the cached titles: the file is opened, skipRows lines are skipped,
\* the header is extracted and the rest is parsed
FrameOfFile(f) ==
    read_table(
        _ExtractHeader(SkipLines([file |-> f, pos |-> 0], skipRows)).handle,
        titles, _GetDeli, comments).df

\* C12: a request that returns for the index i of a file serves the frame
\* parsed from the i-th file of the set, and a fresh cache holds the frames
\* of the files in the order of the set, one per file; with the files
\* t0.txt (row 1 2) and t1.txt (row 3 4) read with the parameters of
\* construction the second frame is the row 3 4.
C12_FrameOfItsFile ==
    /\ (/\ lastCall.op = "RequestData"
        /\ raised = ""
        /\ lastCall.arg \in 0 .. (Len(fileNames) - 1))
            => output = FrameOfFile(fileNames[lastCall.arg + 1])
    /\ ~needToRead
            => (/\ Len(data) = Len(fileNames)
                /\ \A k \in 1 .. Len(fileNames) :
                       << data[k] >> = FrameOfFile(fileNames[k]))
    /\ (/\ ~needToRead
        /\ fileNames = << "t0.txt", "t1.txt" >>
        /\ ~useTab /\ delimiter = " " /\ comments = "!"
        /\ skipRows = 0 /\ hasTitles)
            => (/\ data[1].rows = << << << "1" >>, << "2" >> >> >>
                /\ data[2].rows = << << << "3" >>, << "4" >> >> >>)

\* a request for the second of two files has served a frame with a row
C12_Witness ==
    /\ lastCall.op = "RequestData"
    /\ lastCall.arg = 1
    /\ raised = ""
    /\ Len(fileNames) >= 2
    /\ output # NoFrame
    /\ output[1].rows # << >>
    /\ output[1] # data[1]

Min(a, b) == IF a <= b THEN a ELSE b

\* the physical line of number n (from 1) of the k-th file of the set
PhysicalLine(k, n) == Lines(fileNames[k])[n]

\* C13: a file is opened with exactly its first skipRows physical lines
\* discarded (all of them when it has fewer), comment lines counted like
\* any other line; header extraction begins at the physical line
\* skipRows + 1: that is where the handle stands when the extraction
\* starts, and when that line is no comment line the header is made of
\* it; with skipRows = 0 nothing is discarded.
C13_SkipRowsDiscards ==
    lastCall.op = "RequestData"
        => \A i \in 1 .. Len(log) :
              /\ log[i][1] = "open"
                    => /\ log[i][3]
                            = Min(skipRows, Len(Lines(fileNames[log[i][2]])))
                       /\ skipRows = 0 => log[i][3] = 0
              /\ log[i][1] = "header"
                    => /\ log[i][5] = skipRows
                       /\ PhysicalLine(log[i][2], skipRows + 1)[1] # comments
                            => log[i][4]
                                 = Strip(SplitOn(
                                       PhysicalLine(log[i][2], skipRows + 1),
                                       comments)[1])

\* c.txt, whose first line is a comment line, was read with one line
\* skipped: the header was made of its second line
C13_Witness ==
    /\ lastCall.op = "RequestData"
    /\ fileNames = << "c.txt" >>
    /\ skipRows = 1
    /\ comments = "!"
    /\ hasTitles
    /\ raised = ""
    /\ \E i \in 1 .. Len(log) :
           /\ log[i][1] = "header"
           /\ log[i][4] = << "x", " ", "y" >>
           /\ log[i][5] = 1

\* the titles 'Field 0', 'Field 1', ... written out
FieldNames ==
    << << "F", "i", "e", "l", "d", " ", "0" >>,
       << "F", "i", "e", "l", "d", " ", "1" >>,
       << "F", "i", "e", "l", "d", " ", "2" >>,
       << "F", "i", "e", "l", "d", " ", "3" >>,
       << "F", "i", "e", "l", "d", " ", "4" >>,
       << "F", "i", "e", "l", "d", " ", "5" >> >>

\* the number of the first physical line of the file f after the first n
\* that does not begin with the comment character, 0 when there is none
RECURSIVE FirstNonComment(_, _)
FirstNonComment(f, n) ==
    IF n >= Len(Lines(f)) THEN 0
    ELSE IF (Lines(f)[n + 1] \o << NL >>)[1] = comments
    THEN FirstNonComment(f, n + 1)
    ELSE n + 1

\* the number of fields of the first non-comment line of the file f after
\* the skipped lines, cut at the comment character and stripped
FieldCount(f) ==
    Len(Split(Strip(SplitOn(Lines(f)[FirstNonComment(f, skipRows)],
                            comments)[1]),
              _GetDeli))

\* C14: without titles in the files, when the first non-comment line of
\* the first file has N fields, a fresh cache has the titles 'Field 0' ..
\* 'Field N-1' in this order, the columns of every cached frame and of
\* every frame served are these titles; read from t0.txt with the
\* parameters of construction they are 'Field 0', 'Field 1'.
C14_FieldTitles ==
    /\ (~hasTitles /\ ~needToRead)
            => (/\ titles = SubSeq(FieldNames, 1, FieldCount(fileNames[1]))
                /\ \A k \in 1 .. Len(data) : data[k].columns = titles)
    /\ (~hasTitles /\ lastCall.op = "RequestData" /\ raised = "")
            => output[1].columns
                 = SubSeq(FieldNames, 1, FieldCount(fileNames[1]))
    /\ (/\ ~hasTitles /\ ~needToRead
        /\ fileNames[1] = "t0.txt"
        /\ ~useTab /\ delimiter = " " /\ skipRows = 0)
            => titles = << FieldNames[1], FieldNames[2] >>

\* a frame was served from files read without titles: its columns are
\* 'Field 0' and 'Field 1' and the line x y is its first row
C14_Witness ==
    /\ ~hasTitles
    /\ lastCall.op = "RequestData"
    /\ raised = ""
    /\ titles = << FieldNames[1], FieldNames[2] >>
    /\ output[1].columns = titles
    /\ output[1].rows[1] = << << "x" >>, << "y" >> >>

\* the header events of the log
HeaderEvents(l) == Events(l, "header")

\* the number of the first physical line of the file f after the first n
\* that read_table does not skip, 0 when there is none
RECURSIVE FirstRowLine(_, _)
FirstRowLine(f, n) ==
    IF n >= Len(Lines(f)) THEN 0
    ELSE IF Tokenize(Lines(f)[n + 1], _GetDeli, comments) = << >>
    THEN FirstRowLine(f, n + 1)
    ELSE n + 1

\* the number of physical lines of the file f after the first n that
\* read_table does not skip
RECURSIVE RowCount(_, _)
RowCount(f, n) ==
    IF n >= Len(Lines(f)) THEN 0
    ELSE (IF Tokenize(Lines(f)[n + 1], _GetDeli, comments) = << >>
          THEN 0 ELSE 1) + RowCount(f, n + 1)

\* the frame has one row for each line of the file f after the first n
\* that read_table does not skip, the first of them its first row
RowsFrom(frame, f, n) ==
    /\ Len(frame.rows) = RowCount(f, n)
    /\ frame.rows # << >>
          => frame.rows[1]
               = Tokenize(Lines(f)[FirstRowLine(f, n)], _GetDeli, comments)

\* C15: without titles in the files the extraction of the header leaves
\* the handle where it was, and the frame has a row for every line after
\* the skipped ones, the first data line as its first row; with titles
\* the extraction moves the handle past the comment lines before the
\* header line and past the header line and no further, and the frame
\* has rows only for the lines after the header line.
C15_HeaderConsumption ==
    lastCall.op = "RequestData"
        => /\ \A i \in 1 .. Len(HeaderEvents(log)) :
                 LET e == HeaderEvents(log)[i]
                 IN  IF hasTitles
                     THEN e[6] = FirstNonComment(fileNames[e[2]], e[5])
                     ELSE e[6] = e[5]
           /\ (log # << >> /\ ~needToRead)
                 => \A k \in 1 .. Len(fileNames) :
                       RowsFrom(data[k], fileNames[k],
                                IF hasTitles
                                THEN FirstNonComment(fileNames[k], skipRows)
                                ELSE skipRows)
           /\ (/\ fileNames = << "c.txt" >> /\ hasTitles /\ comments = "!"
               /\ skipRows = 0 /\ ~needToRead /\ log # << >>)
                 => (/\ HeaderEvents(log)[1][5] = 0
                     /\ HeaderEvents(log)[1][6] = 2
                     /\ Len(data[1].rows) = 1)

\* files without titles were read: the header extraction left the handle
\* of t0.txt at the start and the line x y is the first of two rows
C15_Witness ==
    /\ lastCall.op = "RequestData"
    /\ ~hasTitles
    /\ ~needToRead
    /\ fileNames[1] = "t0.txt"
    /\ log # << >>
    /\ HeaderEvents(log)[1][5] = 0
    /\ HeaderEvents(log)[1][6] = 0
    /\ Len(data[1].rows) = 2
    /\ data[1].rows[1] = << << "x" >>, << "y" >> >>

\* the character c occurs in the string s
Occurs(c, s) == \E i \in 1 .. Len(s) : s[i] = c

\* C16: every line _readline returned holds no comment character and
\* neither begins nor ends with white space, and cutting it at the comment
\* character and stripping it again gives the same line; of the physical
\* line 'x y ! n' of c.txt it returns 'x y'.
C16_StrippingIdempotent ==
    lastCall.op = "RequestData"
        => /\ \A i \in 1 .. Len(HeaderEvents(log)) :
                 LET ln == HeaderEvents(log)[i][4]
                 IN  /\ ~Occurs(comments, ln)
                     /\ ln # << >>
                          => (ln[1] \notin Whitespace
                              /\ ln[Len(ln)] \notin Whitespace)
                     /\ Strip(SplitOn(ln, comments)[1]) = ln
           /\ (/\ fileNames[1] = "c.txt" /\ comments = "!" /\ skipRows = 0
               /\ HeaderEvents(log) # << >>)
                 => HeaderEvents(log)[1][4] = << "x", " ", "y" >>

\* _readline has returned the line 'x y' for the physical line 'x y ! n'
\* of c.txt
C16_Witness ==
    /\ lastCall.op = "RequestData"
    /\ fileNames[1] = "c.txt"
    /\ comments = "!"
    /\ skipRows = 0
    /\ HeaderEvents(log) # << >>
    /\ HeaderEvents(log)[1][4] = << "x", " ", "y" >>
    /\ HeaderEvents(log)[1][6] = 2

\* what is left of a physical line before the comment character, stripped
Content(line) == Strip(SplitOn(line, comments)[1])

\* the number of the first physical line of the file f after the first n
\* that has content before the comment character, 0 when there is none
RECURSIVE FirstWithContent(_, _)
FirstWithContent(f, n) ==
    IF n >= Len(Lines(f)) THEN 0
    ELSE IF Content(Lines(f)[n + 1]) = << >>
    THEN FirstWithContent(f, n + 1)
    ELSE n + 1

\* C17: every line _readline returned is the content of the first physical
\* line from where the handle stood that has content before the comment
\* character: it is never what is left of a line that holds a comment
\* only, with or without white space before the comment character.
C17_CommentOnlyLinesSkipped ==
    lastCall.op = "RequestData"
        => \A i \in 1 .. Len(HeaderEvents(log)) :
              LET e == HeaderEvents(log)[i]
                  n == FirstWithContent(fileNames[e[2]], e[5])
              IN  /\ n # 0
                  /\ e[4] = Content(Lines(fileNames[e[2]])[n])
                  /\ e[4] # << >>

\* the parses and closes of the log, in order
ParsesAndCloses(l) ==
    SelectSeq(l, LAMBDA e : e[1] = "parse" \/ e[1] = "close")

\* parse 1, close 1, parse 2, close 2, ... for n handles
ParseCloseInTurn(n) ==
    [i \in 1 .. 2 * n |->
        IF i % 2 = 1 THEN << "parse", (i + 1) \div 2 >>
        ELSE << "close", i \div 2 >>]

\* this step is a request whose read got through _FileContentsToDataFrame
ParsedAll == DirtyRequest /\ ~needToRead'

\* C18: when _FileContentsToDataFrame has returned, every handle it was
\* given is closed, the process holds no more descriptors than before the
\* request, and each handle was closed right after the parse of its file
\* and before the parse of the next file.
C18_ClosedAfterOwnParse ==
    [][ ParsedAll
            => /\ ParsesAndCloses(log') = ParseCloseInTurn(Len(fileNames))
               /\ ClosedBy(log') = OpenedBy(log')
               /\ nOpen' = nOpen
      ]_vars

\* a set of two files was read: the first handle was closed before the
\* second file was parsed
C18_Witness ==
    /\ lastCall.op = "RequestData"
    /\ ~needToRead
    /\ Len(fileNames) = 2
    /\ ParsesAndCloses(log)
         = << << "parse", 1 >>, << "close", 1 >>,
              << "parse", 2 >>, << "close", 2 >> >>

\* the k-th file of the set has no non-comment line after the skipped ones
NoLineLeft(k) == FirstNonComment(fileNames[k], skipRows) = 0

\* the first file of the set with no non-comment line after the skipped
\* ones
FirstWithoutLine ==
    CHOOSE k \in 1 .. Len(fileNames) :
        NoLineLeft(k) /\ \A j \in 1 .. (k - 1) : ~NoLineLeft(j)

\* C19: when all files of the set are opened and one of them has no
\* non-comment line after the skipped ones (it is empty, holds comment
\* lines only, or has no more lines than are skipped), _readline ends at
\* the end of that file by raising: it returns no line for the file, the
\* request raises the IndexError and serves no frame, and the cache stays
\* dirty with the titles and frames it had.
C19_EndOfStreamRaises ==
    [][ (/\ DirtyRequest
         /\ OpenedBy(log') = Len(fileNames)
         /\ \E k \in 1 .. Len(fileNames) : NoLineLeft(k))
            => /\ raised' = "IndexError"
               /\ output' = NoFrame
               /\ needToRead'
               /\ Len(HeaderEvents(log')) = FirstWithoutLine - 1
               /\ ParsedBy(log') = 0
               /\ UNCHANGED << titles, data >>
      ]_vars

\* a request on conly.txt, which holds one comment line, has raised after
\* the open and the cache is dirty
C19_Witness ==
    /\ lastCall.op = "RequestData"
    /\ fileNames = << "conly.txt" >>
    /\ comments = "!"
    /\ skipRows = 0
    /\ raised = "IndexError"
    /\ needToRead
    /\ log = << << "open", 1, 0 >> >>

\* the titles the current parameters extract from the file f alone
TitlesOfFile(f) ==
    _ExtractHeader(SkipLines([file |-> f, pos |-> 0], skipRows)).titles

\* C20: whenever a request has served a frame, the cache is fresh, the
\* cached titles are the titles that the current delimiter, white-space
\* mode, skip rows, comment character and has-titles flag extract from
\* every file of the set, and the frame served is a cached frame that the
\* current parameters parse from a file of the set.
C20_NoStaleFrame ==
    (lastCall.op = "RequestData" /\ raised = "")
        => /\ ~needToRead
           /\ \A k \in 1 .. Len(fileNames) :
                  titles = TitlesOfFile(fileNames[k])
           /\ \E k \in 1 .. Len(fileNames) :
                  /\ output = << data[k] >>
                  /\ output = FrameOfFile(fileNames[k])

\* a frame was served from the cache, without a file operation, after the
\* white-space mode and the has-titles flag were changed and the files
\* read again
C20_Witness ==
    /\ lastCall.op = "RequestData"
    /\ raised = ""
    /\ output # NoFrame
    /\ log = << >>
    /\ useTab
    /\ ~hasTitles
    /\ output[1].columns = << FieldNames[1], FieldNames[2] >>

=============================================================================
